---- MODULE Spec2Model ----
(***************************************************************************)
(* A model of whatami's utilities (src/whatami/whatutils.py): the          *)
(* canonical id codec they are built on, the legacy id decoder             *)
(* oldid2what with its lazily built process-wide parser, id2whatami4,      *)
(* and flatten_what.                                                       *)
(*                                                                         *)
(* A Python str is a sequence of one-character strings; a Python value is  *)
(* a record tagged by its type (field t).                                  *)
(***************************************************************************)
EXTENDS Integers, Sequences, FiniteSets, TLC

\* ------------------------------------------------------------------ text

\* The characters the model's texts are made of, in code point order.
AsciiOrder ==
    << " ", "!", "#", "'", "(", ")", ",", "-",
       "0", "1", "2", "3", "4", "5", "6", "7", "8", "9", ":", "=",
       "A", "B", "D", "F", "G", "L", "N", "O", "T", "[", "\\", "]", "_",
       "a", "b", "c", "d", "e", "f", "g", "h", "i", "j", "k", "l", "m",
       "n", "o", "p", "q", "r", "s", "t", "u", "v", "w", "x", "y", "z",
       "{", "}" >>

Chars == {AsciiOrder[i] : i \in 1..Len(AsciiOrder)}

\* A character's rank: the order of str comparison.
Ord[c \in Chars] == CHOOSE i \in 1..Len(AsciiOrder) : AsciiOrder[i] = c

DigitChars == <<"0", "1", "2", "3", "4", "5", "6", "7", "8", "9">>

Digits == {DigitChars[i] : i \in 1..Len(DigitChars)}

Letters == {c \in Chars : Ord[c] >= Ord["A"] /\ c \notin {"[", "\\", "]", "{", "}"}}

DigitValue(c) == (CHOOSE i \in 1..Len(DigitChars) : DigitChars[i] = c) - 1

\* a < b for two strs.
RECURSIVE StrLess(_, _)
StrLess(a, b) ==
    IF b = <<>> THEN FALSE
    ELSE IF a = <<>> THEN TRUE
    ELSE IF a[1] # b[1] THEN Ord[a[1]] < Ord[b[1]]
    ELSE StrLess(Tail(a), Tail(b))

StartsWith(s, prefix) ==
    Len(s) >= Len(prefix) /\ SubSeq(s, 1, Len(prefix)) = prefix

\* The position of the first c in s, or 0.
IndexOf(s, c) ==
    IF \E i \in 1..Len(s) : s[i] = c
    THEN CHOOSE i \in 1..Len(s) : s[i] = c /\ \A j \in 1..(i - 1) : s[j] # c
    ELSE 0

\* s.partition(c): the text before the first c and the text after it.
Partition(s, c) ==
    LET i == IndexOf(s, c)
    IN  IF i = 0 THEN [head |-> s, found |-> FALSE, tail |-> <<>>]
        ELSE [head |-> SubSeq(s, 1, i - 1), found |-> TRUE,
              tail |-> SubSeq(s, i + 1, Len(s))]

RECURSIVE Join(_, _)
Join(texts, sep) ==
    IF texts = <<>> THEN <<>>
    ELSE IF Len(texts) = 1 THEN texts[1]
    ELSE texts[1] \o sep \o Join(Tail(texts), sep)

\* ---------------------------------------------------------------- values

NoneV == [t |-> "none"]
BoolV(b) == [t |-> "bool", b |-> b]
IntV(n) == [t |-> "int", n |-> n]
TextV(s) == [t |-> "str", s |-> s]
\* A list or a tuple.
SeqV(tag, items) == [t |-> "seq", tag |-> tag, items |-> items]
\* A set or a frozenset; items in insertion order, no two equal.
SetV(tag, items) == [t |-> "set", tag |-> tag, items |-> items]
\* A dict (ordered: an OrderedDict); pairs <<key, value>> in insertion order.
DictV(ordered, pairs) == [t |-> "dict", ordered |-> ordered, pairs |-> pairs]
\* A What: a name and its conf, pairs <<field name, value>> in insertion order.
What(name, conf) == [t |-> "what", name |-> name, conf |-> conf]

Range(f) == {f[i] : i \in DOMAIN f}

\* Structural equality: sets, dicts and confs compare ignoring order.
RECURSIVE ValEq(_, _)
ValEq(a, b) ==
    IF a.t # b.t THEN FALSE
    ELSE CASE a.t = "seq" ->
                 /\ a.tag = b.tag
                 /\ Len(a.items) = Len(b.items)
                 /\ \A i \in 1..Len(a.items) : ValEq(a.items[i], b.items[i])
           [] a.t = "set" ->
                 /\ a.tag = b.tag
                 /\ Len(a.items) = Len(b.items)
                 /\ \A i \in 1..Len(a.items) :
                        \E j \in 1..Len(b.items) : ValEq(a.items[i], b.items[j])
           [] a.t = "dict" ->
                 /\ a.ordered = b.ordered
                 /\ Len(a.pairs) = Len(b.pairs)
                 /\ \A i \in 1..Len(a.pairs) :
                        \E j \in 1..Len(b.pairs) :
                            /\ a.ordered => i = j
                            /\ ValEq(a.pairs[i][1], b.pairs[j][1])
                            /\ ValEq(a.pairs[i][2], b.pairs[j][2])
           [] a.t = "what" ->
                 /\ a.name = b.name
                 /\ Len(a.conf) = Len(b.conf)
                 /\ \A i \in 1..Len(a.conf) :
                        \E j \in 1..Len(b.conf) :
                            /\ a.conf[i][1] = b.conf[j][1]
                            /\ ValEq(a.conf[i][2], b.conf[j][2])
           [] OTHER -> a = b

\* ---------------------------------------------------- canonical encoder

RECURSIVE DigitsOf(_)
DigitsOf(n) ==
    IF n < 10 THEN <<DigitChars[n + 1]>>
    ELSE DigitsOf(n \div 10) \o <<DigitChars[(n % 10) + 1]>>

IntToStr(n) == IF n < 0 THEN <<"-">> \o DigitsOf(-n) ELSE DigitsOf(n)

\* Backslash and the quote are escaped; nothing else is altered.
RECURSIVE Escape(_)
Escape(s) ==
    IF s = <<>> THEN <<>>
    ELSE (IF s[1] \in {"'", "\\"} THEN <<"\\", s[1]>> ELSE <<s[1]>>)
         \o Escape(Tail(s))

string_plugin(s) == <<"'">> \o Escape(s) \o <<"'">>

\* keyed: a sequence of records with a str field k. Insertion sort by k.
RECURSIVE InsertByKey(_, _)
InsertByKey(e, sorted) ==
    IF sorted = <<>> THEN <<e>>
    ELSE IF StrLess(e.k, sorted[1].k) THEN <<e>> \o sorted
    ELSE <<sorted[1]>> \o InsertByKey(e, Tail(sorted))

RECURSIVE SortByKey(_)
SortByKey(keyed) ==
    IF keyed = <<>> THEN <<>>
    ELSE InsertByKey(keyed[Len(keyed)], SortByKey(SubSeq(keyed, 1, Len(keyed) - 1)))

Texts(keyed) == [i \in 1..Len(keyed) |-> keyed[i].e]

RECURSIVE build_string(_)
\* set_plugin, were the elements' texts left in insertion order.
set_plugin_unsorted(v) ==
    LET body == <<"{">> \o Join([i \in 1..Len(v.items) |-> build_string(v.items[i])],
                                <<",">>) \o <<"}">>
    IN  IF v.tag = "set"
        THEN IF v.items = <<>> THEN <<"s", "e", "t", "(", ")">> ELSE body
        ELSE IF v.items = <<>> THEN <<"f", "r", "o", "z", "e", "n", "s", "e", "t", "(", ")">>
             ELSE <<"f", "r", "o", "z", "e", "n", "s", "e", "t", "(">> \o body \o <<")">>

\* A set: the elements' own texts, sorted.
set_plugin(v) ==
    LET keyed == [i \in 1..Len(v.items) |->
                     [k |-> build_string(v.items[i]), e |-> build_string(v.items[i])]]
        body  == <<"{">> \o Join(Texts(SortByKey(keyed)), <<",">>) \o <<"}">>
    IN  IF v.tag = "set"
        THEN IF v.items = <<>> THEN <<"s", "e", "t", "(", ")">> ELSE body
        ELSE IF v.items = <<>> THEN <<"f", "r", "o", "z", "e", "n", "s", "e", "t", "(", ")">>
             ELSE <<"f", "r", "o", "z", "e", "n", "s", "e", "t", "(">> \o body \o <<")">>

\* A list in brackets, a tuple in parentheses (one element: a trailing comma).
seq_plugin(v) ==
    LET body == Join([i \in 1..Len(v.items) |-> build_string(v.items[i])], <<",">>)
    IN  IF v.tag = "list" THEN <<"[">> \o body \o <<"]">>
        ELSE IF Len(v.items) = 1 THEN <<"(">> \o body \o <<",", ")">>
        ELSE <<"(">> \o body \o <<")">>

\* A dict: key:value pairs sorted by the key's text; an OrderedDict: its
\* pairs in insertion order, as OrderedDict(seq=[(k,v),...]).
dict_plugin(v) ==
    LET keyed == [i \in 1..Len(v.pairs) |->
                     [k |-> build_string(v.pairs[i][1]),
                      e |-> build_string(v.pairs[i][1]) \o <<":">>
                            \o build_string(v.pairs[i][2])]]
        tuples == [i \in 1..Len(v.pairs) |->
                     <<"(">> \o build_string(v.pairs[i][1]) \o <<",">>
                     \o build_string(v.pairs[i][2]) \o <<")">>]
    IN  IF v.ordered
        THEN <<"O", "r", "d", "e", "r", "e", "d", "D", "i", "c", "t", "(",
               "s", "e", "q", "=", "[">> \o Join(tuples, <<",">>) \o <<"]", ")">>
        ELSE <<"{">> \o Join(Texts(SortByKey(keyed)), <<",">>) \o <<"}">>

\* What.id(): Name(field=value,...), the fields sorted by name.
what_id(v) ==
    LET keyed == [i \in 1..Len(v.conf) |->
                     [k |-> v.conf[i][1],
                      e |-> v.conf[i][1] \o <<"=">> \o build_string(v.conf[i][2])]]
    IN  v.name \o <<"(">> \o Join(Texts(SortByKey(keyed)), <<",">>) \o <<")">>

build_string(v) ==
    CASE v.t = "none" -> <<"N", "o", "n", "e">>
      [] v.t = "bool" -> IF v.b THEN <<"T", "r", "u", "e">>
                         ELSE <<"F", "a", "l", "s", "e">>
      [] v.t = "int"  -> IntToStr(v.n)
      [] v.t = "str"  -> string_plugin(v.s)
      [] v.t = "seq"  -> seq_plugin(v)
      [] v.t = "set"  -> set_plugin(v)
      [] v.t = "dict" -> dict_plugin(v)
      [] v.t = "what" -> what_id(v)

\* ---------------------------------------------------- canonical decoder

\* A parse result: ok, the value v (or the values vs) read, and the position p
\* after it. A failure is the parser's NoMatch.
Ok(v, p) == [ok |-> TRUE, v |-> v, vs |-> <<>>, p |-> p]
OkMany(vs, p) == [ok |-> TRUE, v |-> NoneV, vs |-> vs, p |-> p]
NoMatch(p) == [ok |-> FALSE, v |-> NoneV, vs |-> <<>>, p |-> p]

\* The character at position i; "" past the end.
At(s, i) == IF i >= 1 /\ i <= Len(s) THEN s[i] ELSE ""

\* The parser skips white space between tokens.
RECURSIVE SkipWs(_, _)
SkipWs(s, i) == IF At(s, i) = " " THEN SkipWs(s, i + 1) ELSE i

RECURSIVE DigitsEnd(_, _)
DigitsEnd(s, i) == IF At(s, i) \in Digits THEN DigitsEnd(s, i + 1) ELSE i

RECURSIVE StrToNat(_)
StrToNat(d) ==
    IF d = <<>> THEN 0
    ELSE 10 * StrToNat(SubSeq(d, 1, Len(d) - 1)) + DigitValue(d[Len(d)])

\* number: decimal digits with an optional leading minus.
ParseInt(s, i) ==
    LET neg   == At(s, i) = "-"
        first == IF neg THEN i + 1 ELSE i
        end   == DigitsEnd(s, first)
        n     == StrToNat(SubSeq(s, first, end - 1))
    IN  IF end = first THEN NoMatch(i)
        ELSE Ok(IntV(IF neg THEN -n ELSE n), end)

\* ParseStrBody, were a backslash kept in the text and not taken as an escape.
RECURSIVE ParseStrBodyKeepsBackslash(_, _, _)
ParseStrBodyKeepsBackslash(s, i, acc) ==
    LET c == At(s, i)
    IN  IF c = "" THEN NoMatch(i)
        ELSE IF c = "'" THEN Ok(TextV(acc), i + 1)
        ELSE IF c = "\\"
             THEN IF At(s, i + 1) = "" THEN NoMatch(i)
                  ELSE ParseStrBodyKeepsBackslash(s, i + 2, acc \o <<c, s[i + 1]>>)
        ELSE ParseStrBodyKeepsBackslash(s, i + 1, Append(acc, c))

\* The body of a quoted string from position i: a backslash takes the next
\* character as it is, the quote ends the string.
RECURSIVE ParseStrBody(_, _, _)
ParseStrBody(s, i, acc) ==
    LET c == At(s, i)
    IN  IF c = "" THEN NoMatch(i)
        ELSE IF c = "'" THEN Ok(TextV(acc), i + 1)
        ELSE IF c = "\\"
             THEN IF At(s, i + 1) = "" THEN NoMatch(i)
                  ELSE ParseStrBody(s, i + 2, Append(acc, s[i + 1]))
        ELSE ParseStrBody(s, i + 1, Append(acc, c))

RECURSIVE IdentEnd(_, _)
IdentEnd(s, i) ==
    IF At(s, i) \in Letters \cup Digits THEN IdentEnd(s, i + 1) ELSE i

\* Whether the parsed items are all 2-tuples: the seq of an OrderedDict.
AllPairs(items) ==
    \A i \in 1..Len(items) :
        items[i].t = "seq" /\ items[i].tag = "tuple" /\ Len(items[i].items) = 2

RECURSIVE ParseValue(_, _)
RECURSIVE ParseItems(_, _, _)
RECURSIVE ParsePairs(_, _)
RECURSIVE ParseFields(_, _, _)

\* The element v read, then the rest of its list.
Cons(v, rest) ==
    IF rest.ok THEN OkMany(<<v>> \o rest.vs, rest.p) ELSE NoMatch(rest.p)

\* After the value r read at j: the closing character, or a comma and more.
ItemsAfter(s, close, j, r) ==
    LET k == SkipWs(s, r.p)
    IN  IF ~r.ok THEN NoMatch(j)
        ELSE IF At(s, k) = close THEN OkMany(<<r.v>>, k + 1)
        ELSE IF At(s, k) = "," THEN Cons(r.v, ParseItems(s, k + 1, close))
        ELSE NoMatch(k)

\* value ("," value)* up to the closing character; a trailing comma is accepted.
ParseItems(s, i, close) ==
    LET j == SkipWs(s, i)
    IN  IF At(s, j) = close THEN OkMany(<<>>, j + 1)
        ELSE ItemsAfter(s, close, j, ParseValue(s, j))

\* After a pair's key and value: the closing brace, or a comma and more.
PairsAfter(s, key, val) ==
    LET k == SkipWs(s, val.p)
    IN  IF ~val.ok THEN NoMatch(val.p)
        ELSE IF At(s, k) = "}" THEN OkMany(<< <<key, val.v>> >>, k + 1)
        ELSE IF At(s, k) = "," THEN Cons(<<key, val.v>>, ParsePairs(s, k + 1))
        ELSE NoMatch(k)

\* After a pair's key: the colon and the pair's value.
PairsKey(s, i, key) ==
    LET c == SkipWs(s, key.p)
    IN  IF ~key.ok \/ At(s, c) # ":" THEN NoMatch(i)
        ELSE PairsAfter(s, key.v, ParseValue(s, SkipWs(s, c + 1)))

\* pair ("," pair)* "}", a pair being value ":" value.
ParsePairs(s, i) == PairsKey(s, i, ParseValue(s, SkipWs(s, i)))

\* After a field's value: the separator and more, or the end of the list.
FieldsAfter(s, sep, name, val) ==
    LET k == SkipWs(s, val.p)
    IN  IF ~val.ok THEN NoMatch(val.p)
        ELSE IF At(s, k) = sep THEN Cons(<<name, val.v>>, ParseFields(s, k + 1, sep))
        ELSE OkMany(<< <<name, val.v>> >>, k)

\* field (sep field)*, a field being identifier "=" value; the list ends
\* where no separator follows.
ParseFields(s, i, sep) ==
    LET j == SkipWs(s, i)
        e == IdentEnd(s, j)
        q == SkipWs(s, e)
    IN  IF At(s, j) \notin Letters \/ At(s, q) # "=" THEN NoMatch(j)
        ELSE FieldsAfter(s, sep, SubSeq(s, j, e - 1), ParseValue(s, SkipWs(s, q + 1)))

\* frozenset({...}): the items read from the brace at j, then the parenthesis.
FrozenSetOf(s, j, inner) ==
    LET after == SkipWs(s, inner.p)
    IN  IF inner.ok /\ inner.vs # <<>> /\ At(s, after) = ")"
        THEN Ok(SetV("frozenset", inner.vs), after + 1)
        ELSE NoMatch(j)

\* identifier(fields): an OrderedDict when it is OrderedDict(seq=[(k, v), ...]),
\* otherwise a What.
CallOf(s, name, fields) ==
    LET close == SkipWs(s, fields.p)
    IN  IF ~fields.ok \/ At(s, close) # ")" THEN NoMatch(close)
        ELSE IF /\ name = <<"O", "r", "d", "e", "r", "e", "d", "D", "i", "c", "t">>
                /\ Len(fields.vs) = 1
                /\ fields.vs[1][1] = <<"s", "e", "q">>
                /\ fields.vs[1][2].t = "seq"
                /\ fields.vs[1][2].tag = "list"
                /\ AllPairs(fields.vs[1][2].items)
        THEN Ok(DictV(TRUE, [n \in 1..Len(fields.vs[1][2].items) |->
                                 fields.vs[1][2].items[n].items]), close + 1)
        ELSE Ok(What(name, fields.vs), close + 1)

\* identifier "(" ... ")" from the position after the parenthesis: the empty
\* set, a frozenset, an OrderedDict, or a What with its fields.
ParseCall(s, name, i) ==
    LET j == SkipWs(s, i)
    IN  IF name \in {<<"s", "e", "t">>, <<"f", "r", "o", "z", "e", "n", "s", "e", "t">>}
           /\ At(s, j) = ")"
        THEN Ok(SetV(IF Len(name) = 3 THEN "set" ELSE "frozenset", <<>>), j + 1)
        ELSE IF name = <<"f", "r", "o", "z", "e", "n", "s", "e", "t">> /\ At(s, j) = "{"
        THEN FrozenSetOf(s, j, ParseItems(s, j + 1, "}"))
        ELSE CallOf(s, name, IF At(s, j) = ")" THEN OkMany(<<>>, j)
                             ELSE ParseFields(s, j, ","))

\* A list or a tuple of the items read.
SeqOf(tag, r) == IF r.ok THEN Ok(SeqV(tag, r.vs), r.p) ELSE NoMatch(r.p)

\* A dict of the pairs read.
DictOf(r) == IF r.ok THEN Ok(DictV(FALSE, r.vs), r.p) ELSE NoMatch(r.p)

\* A set of the items read.
SetOf(r) == IF r.ok THEN Ok(SetV("set", r.vs), r.p) ELSE NoMatch(r.p)

\* After an opening brace, with the first value read at j: a colon after it
\* makes a dict, otherwise a set.
Braces(s, j, first) ==
    IF ~first.ok THEN NoMatch(j)
    ELSE IF At(s, SkipWs(s, first.p)) = ":" THEN DictOf(ParsePairs(s, j))
    ELSE SetOf(ParseItems(s, j, "}"))

ParseValue(s, i) ==
    LET c == At(s, i)
        e == IdentEnd(s, i)
        word == SubSeq(s, i, e - 1)
    IN  CASE c = "'" -> ParseStrBody(s, i + 1, <<>>)
          [] c \in Digits \cup {"-"} -> ParseInt(s, i)
          [] c = "[" -> SeqOf("list", ParseItems(s, i + 1, "]"))
          [] c = "(" -> SeqOf("tuple", ParseItems(s, i + 1, ")"))
          [] c = "{" ->
                \* {} is the empty dict
                IF At(s, SkipWs(s, i + 1)) = "}"
                THEN Ok(DictV(FALSE, <<>>), SkipWs(s, i + 1) + 1)
                ELSE Braces(s, SkipWs(s, i + 1), ParseValue(s, SkipWs(s, i + 1)))
          [] c \in Letters ->
                IF At(s, SkipWs(s, e)) = "(" THEN ParseCall(s, word, SkipWs(s, e) + 1)
                ELSE IF word = <<"N", "o", "n", "e">> THEN Ok(NoneV, e)
                ELSE IF word = <<"T", "r", "u", "e">> THEN Ok(BoolV(TRUE), e)
                ELSE IF word = <<"F", "a", "l", "s", "e">> THEN Ok(BoolV(FALSE), e)
                ELSE NoMatch(i)
          [] OTHER -> NoMatch(i)

\* One What read from j, then the end of the text.
TopWhat(s, j, r) ==
    IF At(s, j) \in Letters /\ r.ok /\ r.v.t = "what" /\ SkipWs(s, r.p) = Len(s) + 1
    THEN Ok(r.v, r.p)
    ELSE NoMatch(j)

\* The canonical grammar's top rule: one What, then the end of the text.
whatami_grammar(s) == TopWhat(s, SkipWs(s, 1), ParseValue(s, SkipWs(s, 1)))

\* The name from j to e, the # at h, the fields read, then the end of the text.
OldTopWhat(s, j, e, h, fields) ==
    IF /\ At(s, j) \in Letters
       /\ At(s, h) = "#"
       /\ fields.ok
       /\ SkipWs(s, fields.p) = Len(s) + 1
    THEN Ok(What(SubSeq(s, j, e - 1), fields.vs), fields.p)
    ELSE NoMatch(j)

\* The legacy grammar's top rule: Name#key=value#key=value..., at least one
\* field, then the end of the text.
oldwhatami_grammar(s) ==
    LET j == SkipWs(s, 1)
        e == IdentEnd(s, j)
        h == SkipWs(s, e)
    IN  OldTopWhat(s, j, e, h, ParseFields(s, h + 1, "#"))

\* OLD_WHATID_PARSER = None, and parser=None: no parser instance.
NoParser == 0

\* parse_whatid(whatid, parser=None): with no parser given the canonical
\* grammar's; a parser instance given here is always one that
\* build_oldwhatami_parser built.
parse_whatid(s, parser) ==
    IF parser = NoParser THEN whatami_grammar(s) ELSE oldwhatami_grammar(s)

\* ------------------------------------------------------------ the inputs

\* The most entries a collection (list, tuple, set, dict, conf) is given.
MaxLen == 2

SeqsUpTo(S, n) == UNION {[1..k -> S] : k \in 0..n}

Injective(f) == \A i, j \in DOMAIN f : f[i] = f[j] => i = j

\* Sequences of at most n elements of S, no element twice.
DistinctSeqs(S, n) == {f \in SeqsUpTo(S, n) : Injective(f)}

\* Sequences of at most n pairs <<k, v>>, no key twice.
PairSeqs(K, V, n) ==
    {f \in SeqsUpTo(K \X V, n) : Injective([i \in DOMAIN f |-> f[i][1]])}

\* Python has True == 1 and False == 0: no set or dict below holds a bool
\* beside those ints.
Leaves ==
    { NoneV, BoolV(TRUE), BoolV(FALSE), IntV(-1), IntV(2), IntV(10),
      TextV(<<>>), TextV(<<"2">>), TextV(<<"a", "'">>), TextV(<<"\\", "n">>) }

ItemLeaves ==
    { NoneV, BoolV(TRUE), IntV(2), IntV(10), TextV(<<"2">>), TextV(<<"a", "'">>) }

\* dict keys: a mix of None, ints and text.
KeyLeaves == { NoneV, IntV(2), IntV(10), TextV(<<"a">>) }

FewLeaves == { NoneV, TextV(<<"\\">>) }

FieldNames == { <<"x">>, <<"y">>, <<"a", "b">> }

\* The lists, tuples, sets, frozensets, dicts and OrderedDicts of at most n
\* entries with items of I, keys of K and dict values of V.
Containers(I, K, V, n) ==
    {SeqV(tag, items) : tag \in {"list", "tuple"}, items \in SeqsUpTo(I, n)}
    \cup {SetV(tag, items) : tag \in {"set", "frozenset"}, items \in DistinctSeqs(I, n)}
    \cup {DictV(o, pairs) : o \in BOOLEAN, pairs \in PairSeqs(K, V, n)}

\* The Whats called name with at most n fields valued in V.
WhatsOver(name, V, n) == {What(name, conf) : conf \in PairSeqs(FieldNames, V, n)}

Flat == Containers(ItemLeaves, KeyLeaves, FewLeaves, MaxLen)
           \cup WhatsOver(<<"B">>, FewLeaves, MaxLen)

\* Values to nest one level deeper.
Nested ==
    { SeqV("tuple", <<IntV(2)>>),
      SetV("set", <<TextV(<<"2">>), IntV(2)>>),
      DictV(FALSE, << <<IntV(10), NoneV>>, <<IntV(2), TextV(<<"a", "'">>)>> >>),
      What(<<"B">>, << <<<<"y">>, IntV(-1)>>, <<<<"x">>, SetV("frozenset", <<>>)>> >>) }

FewNested ==
    { DictV(TRUE, << <<TextV(<<"a">>), NoneV>> >>),
      What(<<"B">>, << <<<<"y">>, IntV(-1)>>, <<<<"x">>, SeqV("list", <<>>)>> >>) }

Deep == Containers(Nested, KeyLeaves, FewNested, MaxLen)

\* The Whats the codec and flatten_what are run on.
Whats ==
    WhatsOver(<<"A">>, {NoneV, IntV(10), TextV(<<"a", "'">>)}, MaxLen)
    \cup {What(<<"A">>, << <<<<"x">>, v>> >>) : v \in Leaves \cup Flat \cup Deep}

Perms(n) == {p \in [1..n -> 1..n] : Injective(p)}

\* The sequences s with s[i] in sets[i].
Prod(sets) == {s \in [DOMAIN sets -> UNION Range(sets)] : \A i \in DOMAIN sets : s[i] \in sets[i]}

\* The values that differ from v only in the insertion order of sets, of
\* dicts that are not ordered, and of confs.
RECURSIVE Reorderings(_)
Reorderings(v) ==
    CASE v.t = "seq" ->
            {SeqV(v.tag, items) :
                items \in Prod([i \in 1..Len(v.items) |-> Reorderings(v.items[i])])}
      [] v.t = "set" ->
            {SetV(v.tag, [i \in 1..Len(items) |-> items[p[i]]]) :
                items \in Prod([i \in 1..Len(v.items) |-> Reorderings(v.items[i])]),
                p \in Perms(Len(v.items))}
      [] v.t = "dict" ->
            {DictV(v.ordered,
                   [i \in 1..Len(ks) |-> <<ks[p[i]], vs[p[i]]>>]) :
                ks \in Prod([i \in 1..Len(v.pairs) |-> Reorderings(v.pairs[i][1])]),
                vs \in Prod([i \in 1..Len(v.pairs) |-> Reorderings(v.pairs[i][2])]),
                p \in IF v.ordered THEN {[i \in 1..Len(v.pairs) |-> i]}
                      ELSE Perms(Len(v.pairs))}
      [] v.t = "what" ->
            {What(v.name, [i \in 1..Len(vs) |-> <<v.conf[p[i]][1], vs[p[i]]>>]) :
                vs \in Prod([i \in 1..Len(v.conf) |-> Reorderings(v.conf[i][2])]),
                p \in Perms(Len(v.conf))}
      [] OTHER -> {v}

\* ------------------------------------------------------- the legacy ids

\* The most key=value fields a legacy id is given.
MaxFields == 2

\* The key=value segments of the legacy ids, each with the value it stands for.
Segments ==
    << [k |-> <<"i", "m">>, lit |-> <<"T", "r", "u", "e">>, v |-> BoolV(TRUE)],
       [k |-> <<"o", "u", "t">>, lit |-> <<"'", "v", "e", "l", "'">>,
        v |-> TextV(<<"v", "e", "l">>)],
       [k |-> <<"p">>, lit |-> <<"(", "'", "x", "'", ",", " ", "'", "y", "'", ")">>,
        v |-> SeqV("tuple", <<TextV(<<"x">>), TextV(<<"y">>)>>)],
       [k |-> <<"t">>, lit |-> <<"-", "1">>, v |-> IntV(-1)] >>

\* The texts given after out= in the leading segment.
OutTexts == { <<"a", "c", "c">>, <<>>, <<"'", "v", "'">> }

\* A legacy id's make-up: the out= prefix (None: no prefix), the name, and
\* the segments of its fields.
LegacyInputs ==
    [out : {NoneV} \cup {TextV(x) : x \in OutTexts},
     name : {<<"G">>},
     fields : DistinctSeqs(1..Len(Segments), MaxFields) \ {<<>>}]

LegacyText(in) ==
    (IF in.out = NoneV THEN <<>> ELSE <<"o", "u", "t", "=">> \o in.out.s \o <<"#">>)
    \o in.name \o <<"#">>
    \o Join([i \in 1..Len(in.fields) |->
                Segments[in.fields[i]].k \o <<"=">> \o Segments[in.fields[i]].lit],
            <<"#">>)

\* The explicit fields of a legacy id, as <<name, value>> pairs.
Explicit(in) ==
    {<<Segments[in.fields[i]].k, Segments[in.fields[i]].v>> : i \in 1..Len(in.fields)}

HasExplicitOut(in) == \E f \in Explicit(in) : f[1] = <<"o", "u", "t">>

\* Texts that are no legacy id.
NotLegacyIds ==
    { <<"v", "e", "l">>,
      <<>>,
      <<"o", "u", "t", "=", "a", "c", "c">>,
      <<"o", "u", "t", "=", "a", "c", "c", "#", "G">>,
      <<"G", "#", "i", "m">>,
      <<"G", "#", "i", "m", "=", "T", "r", "u", "e", "#">>,
      <<"G", "(", "i", "m", "=", "T", "r", "u", "e", ")">> }

LegacyIds == {LegacyText(in) : in \in LegacyInputs} \cup NotLegacyIds

\* The ids concurrent callers pass: a prefixed id, an ambiguous one, and a
\* text that is no legacy id.
ConcurrentIds ==
    { LegacyText([out |-> TextV(<<"a", "c", "c">>), name |-> <<"G">>, fields |-> <<1>>]),
      LegacyText([out |-> TextV(<<"a", "c", "c">>), name |-> <<"G">>, fields |-> <<2>>]),
      <<"v", "e", "l">> }

\* ------------------------------------------------------------- the state

\* The threads of the process, and the most calls each makes.
NThreads == 2
MaxCalls == 2

Threads == 1..NThreads

VARIABLES
    OLD_WHATID_PARSER,  \* the module global: NoParser, or a parser instance
    builds,             \* how many times build_oldwhatami_parser was called
    used,               \* the values of the global that parses were given
    ids,                \* the texts this run's callers pass
    pc,                 \* each thread's position in oldid2what / id2whatami4
    calls,              \* how many calls each thread has made
    frame,              \* each thread's current call: its locals and outcome
    codec,              \* one run of the codec: what2id on two Whats, then id2what
    flat,               \* one run of flatten_what, and of what[key] on its keys
    sorts,              \* one call of sort_whats or sort_whatids
    walk                \* flatten_what's calls of flatten, frame by frame

vars == <<OLD_WHATID_PARSER, builds, used, ids, pc, calls, frame, codec, flat, sorts, walk>>

threadVars == <<OLD_WHATID_PARSER, builds, used, ids, pc, calls, frame>>

\* ----------------------------------------------------- what2id, id2what

\* what2id: None for None, a str as it is, otherwise the What's id.
what2id(obj) ==
    IF obj.t = "none" THEN NoneV
    ELSE IF obj.t = "str" THEN obj
    ELSE TextV(what_id(obj))

\* id2what is an alias of parse_whatid.
id2what(s, parser) == parse_whatid(s, parser)

CodecOff ==
    [stage |-> "off", what |-> NoneV, other |-> NoneV,
     whatid |-> <<>>, otherid |-> <<>>, parsed |-> NoMatch(0)]

\* The ids of the What and of its reordering.
What2Id ==
    /\ codec.stage = "built"
    /\ codec' = [codec EXCEPT !.stage = "encoded",
                              !.whatid = what2id(codec.what).s,
                              !.otherid = what2id(codec.other).s]
    /\ UNCHANGED <<threadVars, flat, sorts, walk>>

\* The id parsed back.
Id2What ==
    /\ codec.stage = "encoded"
    /\ codec' = [codec EXCEPT !.stage = "parsed",
                              !.parsed = id2what(codec.whatid, NoParser)]
    /\ UNCHANGED <<threadVars, flat, sorts, walk>>

\* ------------------------------------------- oldid2what and id2whatami4

NoExc == [type |-> "", args |-> <<>>]

NoFrame ==
    [fn |-> "", arg |-> <<>>, oldwhatid |-> <<>>, out |-> NoneV, built |-> NoParser,
     what |-> NoneV, raised |-> NoExc, exc |-> NoExc, ret |-> NoneV]

\* SplitOut, were out cut as out[3:].
SplitOutKeepsEquals(oldwhatid) ==
    IF StartsWith(oldwhatid, <<"o", "u", "t", "=">>)
    THEN LET parts == Partition(oldwhatid, "#")
         IN  [out |-> TextV(SubSeq(parts.head, 4, Len(parts.head))),
              oldwhatid |-> parts.tail]
    ELSE [out |-> NoneV, oldwhatid |-> oldwhatid]

\* Lines 205-208: out and the rest of the id, split at the first #.
SplitOut(oldwhatid) ==
    IF StartsWith(oldwhatid, <<"o", "u", "t", "=">>)
    THEN LET parts == Partition(oldwhatid, "#")
         IN  [out |-> TextV(SubSeq(parts.head, 5, Len(parts.head))),
              oldwhatid |-> parts.tail]
    ELSE [out |-> NoneV, oldwhatid |-> oldwhatid]

\* what['out'], for a conf that has the key.
ConfGet(what, key) ==
    what.conf[CHOOSE i \in 1..Len(what.conf) : what.conf[i][1] = key][2]

InConf(what, key) == \E i \in 1..Len(what.conf) : what.conf[i][1] = key

\* AddOut, were the conf's own out overwritten without the check.
AddOutOverwrites(out, what) ==
    IF out = NoneV THEN [exc |-> NoExc, what |-> what]
    ELSE [exc |-> NoExc,
          what |-> What(what.name,
                        [i \in 1..Len(what.conf) |->
                            IF what.conf[i][1] = <<"o", "u", "t">>
                            THEN <<<<"o", "u", "t">>, out>> ELSE what.conf[i]]
                        \o IF InConf(what, <<"o", "u", "t">>) THEN <<>>
                           ELSE << <<<<"o", "u", "t">>, out>> >>)]

\* Lines 212-217: out goes into the conf, unless the conf has an out already.
AddOut(out, what) ==
    IF out = NoneV THEN [exc |-> NoExc, what |-> what]
    ELSE IF InConf(what, <<"o", "u", "t">>)
    THEN [exc |-> [type |-> "ValueError",
                   args |-> <<out, ConfGet(what, <<"o", "u", "t">>)>>],
          what |-> NoneV]
    ELSE [exc |-> NoExc,
          what |-> What(what.name, Append(what.conf, <<<<"o", "u", "t">>, out>>))]

\* Catches, were the handler a bare except.
CatchesAll(type) == TRUE

\* Line 229: the exceptions id2whatami4 catches.
Catches(type) == type = "NoMatch"

\* A thread calls oldid2what or id2whatami4 on one of the run's texts.
Call(t) ==
    /\ pc[t] = "ready"
    /\ calls[t] < MaxCalls
    /\ \E fn \in {"oldid2what", "id2whatami4"} : \E s \in ids :
           frame' = [frame EXCEPT ![t] = [NoFrame EXCEPT !.fn = fn, !.arg = s,
                                                         !.oldwhatid = s]]
    /\ calls' = [calls EXCEPT ![t] = @ + 1]
    /\ pc' = [pc EXCEPT ![t] = "check"]
    /\ UNCHANGED <<OLD_WHATID_PARSER, builds, used, ids, codec, flat, sorts, walk>>

\* Line 203: if OLD_WHATID_PARSER is None.
Check(t) ==
    /\ pc[t] = "check"
    /\ pc' = [pc EXCEPT ![t] = IF OLD_WHATID_PARSER = NoParser THEN "build" ELSE "prefix"]
    /\ UNCHANGED <<OLD_WHATID_PARSER, builds, used, ids, calls, frame, codec, flat, sorts, walk>>

\* Line 204, the call: build_oldwhatami_parser() returns a new instance.
Build(t) ==
    /\ pc[t] = "build"
    /\ builds' = builds + 1
    /\ frame' = [frame EXCEPT ![t].built = builds + 1]
    /\ pc' = [pc EXCEPT ![t] = "store"]
    /\ UNCHANGED <<OLD_WHATID_PARSER, used, ids, calls, codec, flat, sorts, walk>>

\* Line 204, the assignment to the global.
Store(t) ==
    /\ pc[t] = "store"
    /\ OLD_WHATID_PARSER' = frame[t].built
    /\ pc' = [pc EXCEPT ![t] = "prefix"]
    /\ UNCHANGED <<builds, used, ids, calls, frame, codec, flat, sorts, walk>>

\* Lines 205-208.
Prefix(t) ==
    /\ pc[t] = "prefix"
    /\ LET split == SplitOut(frame[t].oldwhatid)
       IN  frame' = [frame EXCEPT ![t].out = split.out,
                                  ![t].oldwhatid = split.oldwhatid]
    /\ pc' = [pc EXCEPT ![t] = "parse"]
    /\ UNCHANGED <<OLD_WHATID_PARSER, builds, used, ids, calls, codec, flat, sorts, walk>>

\* Where an exception of the given type, raised in oldid2what, takes thread t.
Raise(t, type) ==
    IF frame[t].fn = "id2whatami4" /\ Catches(type) THEN "except" ELSE "done"

\* Line 210: the parse, by the parser the global holds now.
Parse(t) ==
    /\ pc[t] = "parse"
    /\ used' = used \cup {OLD_WHATID_PARSER}
    /\ LET r == id2what(frame[t].oldwhatid, OLD_WHATID_PARSER)
           e == [type |-> "NoMatch", args |-> <<>>]
       IN  IF r.ok
           THEN /\ frame' = [frame EXCEPT ![t].what = r.v]
                /\ pc' = [pc EXCEPT ![t] = "post"]
           ELSE /\ frame' = [frame EXCEPT ![t].raised = e, ![t].exc = e]
                /\ pc' = [pc EXCEPT ![t] = Raise(t, "NoMatch")]
    /\ UNCHANGED <<OLD_WHATID_PARSER, builds, ids, calls, codec, flat, sorts, walk>>

\* Lines 212-217: oldid2what raises or returns the What.
Post(t) ==
    /\ pc[t] = "post"
    /\ LET r == AddOut(frame[t].out, frame[t].what)
       IN  IF r.exc # NoExc
           THEN /\ frame' = [frame EXCEPT ![t].raised = r.exc, ![t].exc = r.exc,
                                          ![t].what = NoneV]
                /\ pc' = [pc EXCEPT ![t] = Raise(t, r.exc.type)]
           ELSE IF frame[t].fn = "oldid2what"
           THEN /\ frame' = [frame EXCEPT ![t].what = r.what, ![t].ret = r.what]
                /\ pc' = [pc EXCEPT ![t] = "done"]
           ELSE /\ frame' = [frame EXCEPT ![t].what = r.what]
                /\ pc' = [pc EXCEPT ![t] = "id"]
    /\ UNCHANGED <<OLD_WHATID_PARSER, builds, used, ids, calls, codec, flat, sorts, walk>>

\* Line 228: id2whatami4 returns the id of the What.
Id(t) ==
    /\ pc[t] = "id"
    /\ frame' = [frame EXCEPT ![t].ret = TextV(what_id(frame[t].what))]
    /\ pc' = [pc EXCEPT ![t] = "done"]
    /\ UNCHANGED <<OLD_WHATID_PARSER, builds, used, ids, calls, codec, flat, sorts, walk>>

\* Lines 229-230: id2whatami4 returns the text it was given.
Except(t) ==
    /\ pc[t] = "except"
    /\ frame' = [frame EXCEPT ![t].exc = NoExc, ![t].ret = TextV(frame[t].arg)]
    /\ pc' = [pc EXCEPT ![t] = "done"]
    /\ UNCHANGED <<OLD_WHATID_PARSER, builds, used, ids, calls, codec, flat, sorts, walk>>

\* The call is over; the thread may call again.
Return(t) ==
    /\ pc[t] = "done"
    /\ calls[t] < MaxCalls
    /\ pc' = [pc EXCEPT ![t] = "ready"]
    /\ UNCHANGED <<OLD_WHATID_PARSER, builds, used, ids, calls, frame, codec, flat, sorts, walk>>

\* -------------------------------------------------------- flatten_what

\* Whether Python 3 orders two dict keys with <: ints (and bools) among
\* themselves, strs among themselves; None with nothing, an int with no str.
Orderable(a, b) ==
    \/ a.t \in {"int", "bool"} /\ b.t \in {"int", "bool"}
    \/ a.t = "str" /\ b.t = "str"

NumOf(v) == IF v.t = "bool" THEN (IF v.b THEN 1 ELSE 0) ELSE v.n

\* a < b for two orderable keys.
PyLess(a, b) == IF a.t = "str" THEN StrLess(a.s, b.s) ELSE NumOf(a) < NumOf(b)

RECURSIVE PyInsert(_, _)
PyInsert(item, sorted) ==
    IF sorted = <<>> THEN <<item>>
    ELSE IF PyLess(item[1], sorted[1][1]) THEN <<item>> \o sorted
    ELSE <<sorted[1]>> \o PyInsert(item, Tail(sorted))

RECURSIVE PySort(_)
PySort(items) ==
    IF items = <<>> THEN <<>>
    ELSE PyInsert(items[Len(items)], PySort(SubSeq(items, 1, Len(items) - 1)))

\* sorted(d.items()): the <<key, value>> pairs by key (no two keys are equal,
\* so no values are compared); a TypeError when two keys have no order, since
\* sorting compares every item with another.
sorted_items(items) ==
    IF \E i, j \in 1..Len(items) : i # j /\ ~Orderable(items[i][1], items[j][1])
    THEN [raised |-> TRUE, kvs |-> <<>>]
    ELSE [raised |-> FALSE, kvs |-> PySort(items)]

\* what.conf.items(): the field names are strs.
ConfItems(what) == [i \in 1..Len(what.conf) |-> <<TextV(what.conf[i][1]), what.conf[i][2]>>]

\* Lines 105-112: the <<key, value>> pairs to descend into. A set is neither
\* a What, a list, a tuple nor a dict: it has none.
Kvs(what) ==
    CASE what.t = "what" -> sorted_items(ConfItems(what))
      [] what.t = "seq" ->
            [raised |-> FALSE,
             kvs |-> [i \in 1..Len(what.items) |-> <<IntV(i - 1), what.items[i]>>]]
      [] what.t = "dict" -> sorted_items(what.pairs)
      [] OTHER -> [raised |-> FALSE, kvs |-> <<>>]

\* Lines 104-118: the inner flatten; FlattenLoop is its for loop from the
\* i-th pair on. A key is the tuple of the keys and positions down to a value.
RECURSIVE flatten(_, _, _, _)
RECURSIVE FlattenLoop(_, _, _, _, _)
FlattenLoop(kvs, i, flattened_keys, flattened_values, partial_k) ==
    IF i > Len(kvs)
    THEN [raised |-> FALSE, keys |-> flattened_keys, values |-> flattened_values]
    ELSE LET k   == Append(partial_k, kvs[i][1])
             sub == flatten(kvs[i][2], Append(flattened_keys, k),
                            Append(flattened_values, kvs[i][2]), k)
         IN  IF sub.raised THEN sub
             ELSE FlattenLoop(kvs, i + 1, sub.keys, sub.values, partial_k)

flatten(what, flattened_keys, flattened_values, partial_k) ==
    LET kvs == Kvs(what)
    IN  IF kvs.raised THEN [raised |-> TRUE, keys |-> <<>>, values |-> <<>>]
        ELSE FlattenLoop(kvs.kvs, 1, flattened_keys, flattened_values, partial_k)

\* Line 120.
flatten_what(what) == flatten(what, <<>>, <<>>, <<>>)

\* One step of a key-path lookup: a field of a What, a key of a dict, a
\* position of a list, tuple or set.
GetItem(v, k) ==
    CASE v.t = "what" /\ k.t = "str" /\ InConf(v, k.s) ->
            [ok |-> TRUE, v |-> ConfGet(v, k.s)]
      [] v.t = "dict" /\ \E i \in 1..Len(v.pairs) : v.pairs[i][1] = k ->
            [ok |-> TRUE,
             v |-> v.pairs[CHOOSE i \in 1..Len(v.pairs) : v.pairs[i][1] = k][2]]
      [] v.t \in {"seq", "set"} /\ k.t = "int" /\ k.n >= 0 /\ k.n < Len(v.items) ->
            [ok |-> TRUE, v |-> v.items[k.n + 1]]
      [] OTHER -> [ok |-> FALSE, v |-> NoneV]

\* what[key] for a tuple key: the lookup descends key by key.
RECURSIVE what_getitem(_, _)
what_getitem(v, key) ==
    IF key = <<>> THEN [ok |-> TRUE, v |-> v]
    ELSE LET r == GetItem(v, key[1])
         IN  IF r.ok THEN what_getitem(r.v, Tail(key)) ELSE r

FlatOff ==
    [stage |-> "off", what |-> NoneV, raised |-> FALSE, keys |-> <<>>,
     values |-> <<>>, looked |-> <<>>]

\* flatten_what(what): its two lists, or the TypeError it raised.
FlattenWhat ==
    /\ flat.stage = "built"
    /\ LET r == flatten_what(flat.what)
       IN  flat' = [flat EXCEPT !.stage = "flattened", !.raised = r.raised,
                                !.keys = r.keys, !.values = r.values]
    /\ UNCHANGED <<threadVars, codec, sorts, walk>>

\* what[keys[i]], for the next of the keys.
Lookup ==
    /\ flat.stage = "flattened"
    /\ Len(flat.looked) < Len(flat.keys)
    /\ flat' = [flat EXCEPT !.looked =
                   Append(@, what_getitem(flat.what, flat.keys[Len(flat.looked) + 1]))]
    /\ UNCHANGED <<threadVars, codec, sorts, walk>>

\* ------------------------------------ whatvalues, sort_whats, sort_whatids

\* The most Whats (or ids) a sort is given.
MaxWhats == 3

\* The values of the field lag: ints, None, a text, and a dict.
LagValues ==
    { IntV(-1), IntV(2), IntV(10), NoneV, TextV(<<"a">>),
      DictV(FALSE, << <<IntV(2), NoneV>> >>) }

\* The values of the field fex.
FexValues == { IntV(2), TextV(<<"a">>) }

\* The Whats that are sorted: Lagged(fex=..., lag=...) as in the doctests.
Lagged ==
    { What(<<"L">>, << <<<<"f", "e", "x">>, f>>, <<<<"l", "a", "g">>, l>> >>) :
        f \in FexValues, l \in LagValues }

\* The *keys a sort is called with: fields every Lagged has.
SortKeys ==
    { <<>>, << <<"l", "a", "g">> >>, << <<"f", "e", "x">> >>,
      << <<"l", "a", "g">>, <<"f", "e", "x">> >>,
      << <<"f", "e", "x">>, <<"l", "a", "g">> >> }

\* whatvalues(what, keys), for keys a tuple as sort_whats passes them:
\* tuple(what[key] for key in keys).
whatvalues(what, keys) == [i \in 1..Len(keys) |-> GetItem(what, TextV(keys[i])).v]

\* a == b for two values: ints and bools by their number, the rest by structure.
PyEq(a, b) ==
    IF a.t \in {"int", "bool"} /\ b.t \in {"int", "bool"} THEN NumOf(a) = NumOf(b)
    ELSE ValEq(a, b)

\* The first position at which two tuples of one length differ; 0 when none.
FirstDiff(x, y) ==
    IF \A i \in 1..Len(x) : PyEq(x[i], y[i]) THEN 0
    ELSE CHOOSE i \in 1..Len(x) :
             ~PyEq(x[i], y[i]) /\ \A j \in 1..(i - 1) : PyEq(x[j], y[j])

\* x < y for two tuples: Python compares the elements at the first position
\* where they differ, and raises TypeError when those have no order.
TupleRaises(x, y) ==
    FirstDiff(x, y) # 0 /\ ~Orderable(x[FirstDiff(x, y)], y[FirstDiff(x, y)])

TupleLess(x, y) ==
    FirstDiff(x, y) # 0 /\ PyLess(x[FirstDiff(x, y)], y[FirstDiff(x, y)])

\* The index i put into the sorted indices: before the first index whose
\* value is greater, so after every index with an equal value.
RECURSIVE InsertIndex(_, _, _)
InsertIndex(i, sorted, values) ==
    IF sorted = <<>> THEN <<i>>
    ELSE IF TupleLess(values[i], values[sorted[1]]) THEN <<i>> \o sorted
    ELSE <<sorted[1]>> \o InsertIndex(i, Tail(sorted), values)

\* The indices 1..n by their values, equal values in index order.
RECURSIVE SortIndices(_, _)
SortIndices(values, n) ==
    IF n = 0 THEN <<>> ELSE InsertIndex(n, SortIndices(values, n - 1), values)

\* sorted(zip(values, whats), key=itemgetter(0)), as the indices into the two
\* lists: a stable sort by the values alone. The values of one type (ints,
\* strs) are totally ordered, so a sort that ends has compared, within every
\* group of values with a common beginning, elements of every type present
\* there: it raises TypeError exactly when some two values have no order.
sorted_by_value(values) ==
    IF \E i, j \in 1..Len(values) : TupleRaises(values[i], values[j])
    THEN [raised |-> TRUE, order |-> <<>>]
    ELSE [raised |-> FALSE, order |-> SortIndices(values, Len(values))]

\* tuple(zip(*[(whatid, value) for value, whatid in ...])): the two tuples, and
\* for no pairs at all the empty tuple.
zip_sorted(items, values, s) ==
    IF s.raised THEN [raised |-> TRUE, ret |-> <<>>]
    ELSE [raised |-> FALSE,
          ret |-> IF s.order = <<>> THEN <<>>
                  ELSE << [i \in 1..Len(s.order) |-> items[s.order[i]]],
                          [i \in 1..Len(s.order) |-> values[s.order[i]]] >>]

\* Line 153's values, sorted and zipped by line 154.
sort_values(items, values) == zip_sorted(items, values, sorted_by_value(values))

\* sort_whats(whats, *keys).
sort_whats(whats, keys) ==
    sort_values(whats, [i \in 1..Len(whats) |-> whatvalues(whats[i], keys)])

\* sort_whatids(whatids, *keys): the values are those of the Whats the ids
\* parse to, the ids are what is sorted.
sort_whatids(whatids, keys) ==
    sort_values(whatids,
                [i \in 1..Len(whatids) |->
                    whatvalues(id2what(whatids[i], NoParser).v, keys)])

SortOff ==
    [stage |-> "off", fn |-> "", items |-> <<>>, keys |-> <<>>,
     raised |-> FALSE, ret |-> <<>>]

\* A call of sort_whats on the Whats.
SortWhats ==
    /\ sorts.stage = "built"
    /\ LET r == sort_whats(sorts.items, sorts.keys)
       IN  sorts' = [sorts EXCEPT !.stage = "done", !.fn = "sort_whats",
                                  !.raised = r.raised, !.ret = r.ret]
    /\ UNCHANGED <<threadVars, codec, flat, walk>>

\* A call of sort_whatids on the ids of the Whats.
SortWhatids ==
    /\ sorts.stage = "built"
    /\ LET whatids == [i \in 1..Len(sorts.items) |-> what2id(sorts.items[i]).s]
           r       == sort_whatids(whatids, sorts.keys)
       IN  sorts' = [sorts EXCEPT !.stage = "done", !.fn = "sort_whatids",
                                  !.items = whatids,
                                  !.raised = r.raised, !.ret = r.ret]
    /\ UNCHANGED <<threadVars, codec, flat, walk>>

\* ------------------------------------------- flatten's calls of itself

\* walk.stack holds the frames of flatten that are on the call stack, the
\* first called first; flattened_keys and flattened_values are the two lists
\* all the frames share.
WalkOff ==
    [stage |-> "off", what |-> NoneV, stack |-> <<>>, raised |-> FALSE,
     flattened_keys |-> <<>>, flattened_values |-> <<>>]

\* A call flatten(what, ..., partial_k) at lines 105-112: its frame with kvs
\* computed and the for loop at the first pair; sorted() may raise here.
FlattenFrame(what, partial_k) ==
    [what |-> what, kvs |-> Kvs(what).kvs, i |-> 1, partial_k |-> partial_k]

\* The walk after flatten was called on what with the frames below it: a
\* TypeError unwinds them all.
Called(w, below, what, partial_k) ==
    IF Kvs(what).raised
    THEN [w EXCEPT !.stage = "raised", !.raised = TRUE, !.stack = <<>>]
    ELSE [w EXCEPT !.stage = "running",
                   !.stack = Append(below, FlattenFrame(what, partial_k))]

\* Line 120: flatten_what calls flatten(what, [], [], ()).
FlattenCall ==
    /\ walk.stage = "built"
    /\ walk' = Called(walk, <<>>, walk.what, <<>>)
    /\ UNCHANGED <<threadVars, codec, flat, sorts>>

\* Lines 113-117: one turn of the for loop of the innermost frame: the key and
\* the value are appended, and flatten calls itself on the value.
FlattenFor ==
    /\ walk.stage = "running"
    /\ LET top == walk.stack[Len(walk.stack)]
       IN  /\ top.i <= Len(top.kvs)
           /\ walk' = Called([walk EXCEPT
                                 !.flattened_keys =
                                     Append(@, Append(top.partial_k, top.kvs[top.i][1])),
                                 !.flattened_values = Append(@, top.kvs[top.i][2])],
                             [walk.stack EXCEPT ![Len(walk.stack)].i = top.i + 1],
                             top.kvs[top.i][2],
                             Append(top.partial_k, top.kvs[top.i][1]))
    /\ UNCHANGED <<threadVars, codec, flat, sorts>>

\* Line 118: the innermost frame's loop is over and it returns; the first
\* frame's return is flatten_what's.
FlattenReturn ==
    /\ walk.stage = "running"
    /\ walk.stack[Len(walk.stack)].i > Len(walk.stack[Len(walk.stack)].kvs)
    /\ walk' = [walk EXCEPT !.stack = SubSeq(@, 1, Len(@) - 1),
                            !.stage = IF Len(walk.stack) = 1 THEN "returned" ELSE @]
    /\ UNCHANGED <<threadVars, codec, flat, sorts>>

\* ------------------------------------------------------ specifications

ThreadsOff ==
    /\ OLD_WHATID_PARSER = NoParser
    /\ builds = 0
    /\ used = {}
    /\ ids = {}
    /\ pc = [t \in Threads |-> "off"]
    /\ calls = [t \in Threads |-> 0]
    /\ frame = [t \in Threads |-> NoFrame]

\* The process after import: no parser yet, every thread about to call.
Init ==
    /\ OLD_WHATID_PARSER = NoParser
    /\ builds = 0
    /\ used = {}
    /\ ids = ConcurrentIds
    /\ pc = [t \in Threads |-> "ready"]
    /\ calls = [t \in Threads |-> 0]
    /\ frame = [t \in Threads |-> NoFrame]
    /\ codec = CodecOff
    /\ flat = FlatOff
    /\ sorts = SortOff
    /\ walk = WalkOff

Next ==
    \E t \in Threads :
        \/ Call(t)
        \/ Check(t)
        \/ Build(t)
        \/ Store(t)
        \/ Prefix(t)
        \/ Parse(t)
        \/ Post(t)
        \/ Id(t)
        \/ Except(t)
        \/ Return(t)

Spec == Init /\ [][Next]_vars

\* One thread, and one text of the legacy ids and the texts that are none.
InitLegacy ==
    /\ OLD_WHATID_PARSER = NoParser
    /\ builds = 0
    /\ used = {}
    /\ \E s \in LegacyIds : ids = {s}
    /\ pc = [t \in Threads |-> IF t = 1 THEN "ready" ELSE "off"]
    /\ calls = [t \in Threads |-> 0]
    /\ frame = [t \in Threads |-> NoFrame]
    /\ codec = CodecOff
    /\ flat = FlatOff
    /\ sorts = SortOff
    /\ walk = WalkOff

SpecLegacy == InitLegacy /\ [][Next]_vars

InitCodec ==
    /\ ThreadsOff
    /\ flat = FlatOff
    /\ sorts = SortOff
    /\ walk = WalkOff
    /\ \E w \in Whats : \E o \in Reorderings(w) :
           codec = [CodecOff EXCEPT !.stage = "built", !.what = w, !.other = o]

NextCodec == What2Id \/ Id2What

SpecCodec == InitCodec /\ [][NextCodec]_vars

InitFlatten ==
    /\ ThreadsOff
    /\ codec = CodecOff
    /\ sorts = SortOff
    /\ walk = WalkOff
    /\ \E w \in Whats : flat = [FlatOff EXCEPT !.stage = "built", !.what = w]

NextFlatten == FlattenWhat \/ Lookup

SpecFlatten == InitFlatten /\ [][NextFlatten]_vars

\* At most MaxWhats of the Lagged Whats, in any order and with repeats, and the
\* keys to sort them by.
InitSort ==
    /\ ThreadsOff
    /\ codec = CodecOff
    /\ flat = FlatOff
    /\ walk = WalkOff
    /\ \E whats \in SeqsUpTo(Lagged, MaxWhats) : \E keys \in SortKeys :
           sorts = [SortOff EXCEPT !.stage = "built", !.items = whats, !.keys = keys]

NextSort == SortWhats \/ SortWhatids

SpecSort == InitSort /\ [][NextSort]_vars

InitWalk ==
    /\ ThreadsOff
    /\ codec = CodecOff
    /\ flat = FlatOff
    /\ sorts = SortOff
    /\ \E w \in Whats : walk = [WalkOff EXCEPT !.stage = "built", !.what = w]

NextWalk == FlattenCall \/ FlattenFor \/ FlattenReturn

SpecWalk == InitWalk /\ [][NextWalk]_vars

\* --------------------------------------------------------------- claims

CanonicalStability ==
    codec.stage \in {"encoded", "parsed"} => codec.whatid = codec.otherid

\* Two Whats whose dicts were filled in different orders were encoded.
CanonicalStabilityWitness ==
    /\ codec.stage = "encoded"
    /\ codec.what # codec.other
    /\ codec.what.conf[1][2].t = "dict"
    /\ Len(codec.what.conf[1][2].pairs) = MaxLen

\* The fields oldid2what is to return for a legacy id.
Expected(in) ==
    Explicit(in) \cup (IF in.out = NoneV THEN {} ELSE {<<<<"o", "u", "t">>, in.out>>})

\* C3: for a legacy id out=X#Name#k=v... with no explicit out, oldid2what
\* returns the What called Name whose fields are the explicit fields and out,
\* holding the text X; without the prefix, the explicit fields alone.
LegacyDecode ==
    \A t \in Threads : \A in \in LegacyInputs :
        ( /\ pc[t] = "done"
          /\ frame[t].fn = "oldid2what"
          /\ frame[t].arg = LegacyText(in)
          /\ (in.out = NoneV \/ ~HasExplicitOut(in)) )
        => /\ frame[t].exc = NoExc
           /\ frame[t].ret.t = "what"
           /\ frame[t].ret.name = in.name
           /\ Len(frame[t].ret.conf) = Cardinality(Expected(in))
           /\ Range(frame[t].ret.conf) = Expected(in)

\* oldid2what returned a What for an id with the out= prefix.
LegacyDecodeWitness ==
    \E t \in Threads :
        /\ pc[t] = "done"
        /\ frame[t].fn = "oldid2what"
        /\ StartsWith(frame[t].arg, <<"o", "u", "t", "=", "a", "c", "c", "#">>)
        /\ frame[t].ret.t = "what"
        /\ Len(frame[t].ret.conf) = MaxFields + 1

\* C4: for a legacy id with out both in the prefix and as an explicit field,
\* oldid2what raises the error naming both values and returns nothing.
AmbiguityDetected ==
    \A t \in Threads : \A in \in LegacyInputs :
        ( /\ pc[t] = "done"
          /\ frame[t].fn = "oldid2what"
          /\ frame[t].arg = LegacyText(in)
          /\ in.out # NoneV
          /\ HasExplicitOut(in) )
        => /\ frame[t].exc = [type |-> "ValueError",
                              args |-> <<in.out, TextV(<<"v", "e", "l">>)>>]
           /\ frame[t].ret = NoneV

\* oldid2what raised for an ambiguous id.
AmbiguityDetectedWitness ==
    \E t \in Threads : \E in \in LegacyInputs :
        /\ pc[t] = "done"
        /\ frame[t].fn = "oldid2what"
        /\ frame[t].arg = LegacyText(in)
        /\ in.out # NoneV
        /\ HasExplicitOut(in)
        /\ frame[t].exc.type = "ValueError"

\* The id of the What a legacy id stands for.
ExpectedId(in) ==
    what_id(What(in.name,
                 [i \in 1..Len(in.fields) |->
                     <<Segments[in.fields[i]].k, Segments[in.fields[i]].v>>]
                 \o IF in.out = NoneV THEN <<>> ELSE << <<<<"o", "u", "t">>, in.out>> >>))

\* C5 as stated: whenever oldid2what fails, id2whatami4 returns the text it
\* was given and raises nothing; when it succeeds, the id of the What.
PassThroughOnAnyFailure ==
    \A t \in Threads :
        (pc[t] = "done" /\ frame[t].fn = "id2whatami4")
        => /\ frame[t].exc = NoExc
           /\ frame[t].ret = IF frame[t].raised # NoExc THEN TextV(frame[t].arg)
                             ELSE TextV(what_id(frame[t].what))

\* C5, amended: when oldid2what fails to parse the text (NoMatch),
\* id2whatami4 returns the text it was given; when oldid2what raises the
\* ambiguous-out ValueError, id2whatami4 raises it too and returns nothing;
\* when oldid2what succeeds, id2whatami4 returns the id of the What.
PassThroughOnNoMatch ==
    \A t \in Threads :
        (pc[t] = "done" /\ frame[t].fn = "id2whatami4")
        => /\ frame[t].raised.type = "NoMatch"
                => frame[t].exc = NoExc /\ frame[t].ret = TextV(frame[t].arg)
           /\ frame[t].raised.type = "ValueError"
                => frame[t].exc = frame[t].raised /\ frame[t].ret = NoneV
           /\ frame[t].raised = NoExc
                => /\ frame[t].exc = NoExc
                   /\ frame[t].ret = TextV(what_id(frame[t].what))
                   /\ \A in \in LegacyInputs :
                          frame[t].arg = LegacyText(in)
                          => frame[t].ret = TextV(ExpectedId(in))
           /\ \A in \in LegacyInputs :
                  frame[t].arg = LegacyText(in)
                  => frame[t].raised.type =
                         IF in.out # NoneV /\ HasExplicitOut(in) THEN "ValueError" ELSE ""
           /\ frame[t].arg \in NotLegacyIds => frame[t].raised.type = "NoMatch"

\* id2whatami4 returned, unchanged, a text that is no legacy id.
PassThroughWitness ==
    \E t \in Threads :
        /\ pc[t] = "done"
        /\ frame[t].fn = "id2whatami4"
        /\ frame[t].raised.type = "NoMatch"
        /\ frame[t].ret = TextV(frame[t].arg)

\* C6: build_oldwhatami_parser is called at most once.
BuildAtMostOnce == builds <= 1

\* C7: every parse is given a built parser, and all parses the same one.
SameCompletedInstance == NoParser \notin used /\ Cardinality(used) <= 1

\* C8: flatten_what returns, for every What, two lists of one length, and
\* what[keys[i]] is values[i] for every i.
FlattenAligned ==
    flat.stage = "flattened"
    => /\ ~flat.raised
       /\ Len(flat.keys) = Len(flat.values)
       /\ \A i \in 1..Len(flat.looked) :
              flat.looked[i].ok /\ flat.looked[i].v = flat.values[i]

\* The <<key, value>> pairs under a value, a set's positions among them.
ChildrenOf(v) ==
    CASE v.t = "what" -> Range(ConfItems(v))
      [] v.t = "dict" -> Range(v.pairs)
      [] v.t \in {"seq", "set"} -> {<<IntV(i - 1), v.items[i]>> : i \in 1..Len(v.items)}
      [] OTHER -> {}

\* The key paths of all the nodes under a value.
RECURSIVE NodesOf(_)
NodesOf(v) ==
    UNION {{<<c[1]>>} \cup {<<c[1]>> \o path : path \in NodesOf(c[2])} : c \in ChildrenOf(v)}

IsPrefix(a, b) == Len(a) <= Len(b) /\ SubSeq(b, 1, Len(a)) = a

\* C9: flatten_what yields exactly one key for every node under the What,
\* sets' positions included, each node's key after its parent's and before
\* the keys of the parent's later children.
FlattenCovers ==
    flat.stage = "flattened"
    => /\ ~flat.raised
       /\ Injective(flat.keys)
       /\ Range(flat.keys) = NodesOf(flat.what)
       /\ \A i, j \in 1..Len(flat.keys) :
              /\ (IsPrefix(flat.keys[i], flat.keys[j]) /\ i # j) => i < j
              /\ (IsPrefix(flat.keys[i], flat.keys[j]) /\ i < j)
                    => \A m \in i..j : IsPrefix(flat.keys[i], flat.keys[m])

\* The keys of a What or a dict in the order the encoder emits them: the
\* fields by name, a dict's pairs by the key's text, an OrderedDict's as
\* inserted; the positions of a list or tuple.
EmittedKeys(v) ==
    CASE v.t = "what" ->
            Texts(SortByKey([i \in 1..Len(v.conf) |->
                                [k |-> v.conf[i][1], e |-> TextV(v.conf[i][1])]]))
      [] v.t = "dict" /\ v.ordered -> [i \in 1..Len(v.pairs) |-> v.pairs[i][1]]
      [] v.t = "dict" /\ ~v.ordered ->
            Texts(SortByKey([i \in 1..Len(v.pairs) |->
                                [k |-> build_string(v.pairs[i][1]), e |-> v.pairs[i][1]]]))
      [] v.t = "seq" -> [i \in 1..Len(v.items) |-> IntV(i - 1)]
      [] OTHER -> <<>>

\* The last keys of the children of the node at path, in the order flatten_what
\* listed them.
RECURSIVE ListedUnder(_, _)
ListedUnder(keys, path) ==
    IF keys = <<>> THEN <<>>
    ELSE (IF Len(keys[1]) = Len(path) + 1 /\ IsPrefix(path, keys[1])
          THEN <<keys[1][Len(keys[1])]>> ELSE <<>>)
         \o ListedUnder(Tail(keys), path)

\* C10: under the What and under every What, dict, list and tuple in it,
\* flatten_what lists the entries in the order the encoder emits them.
FlattenSiblingOrder ==
    flat.stage = "flattened"
    => /\ ~flat.raised
       /\ ListedUnder(flat.keys, <<>>) = EmittedKeys(flat.what)
       /\ \A i \in 1..Len(flat.keys) :
              flat.values[i].t \in {"what", "dict", "seq"}
              => ListedUnder(flat.keys, flat.keys[i]) = EmittedKeys(flat.values[i])

\* The tuple extracted for an item of the sorted sequence: of the What itself,
\* or of the What an id parses to.
TupleOf(item) ==
    whatvalues(IF sorts.fn = "sort_whatids" THEN id2what(item, NoParser).v ELSE item,
               sorts.keys)

\* The order the sort is to go by: ints by number, texts by code point, and
\* values with no such order by their canonical strings.
ValueBefore(a, b) ==
    IF Orderable(a, b) THEN PyLess(a, b)
    ELSE StrLess(build_string(a), build_string(b))

TupleBefore(x, y) ==
    FirstDiff(x, y) # 0 /\ ValueBefore(x[FirstDiff(x, y)], y[FirstDiff(x, y)])

\* The items in the order p, non-decreasing by their tuples, items with equal
\* tuples in their input order.
StablySortedBy(p, sorted) ==
    /\ Len(sorted) = Len(sorts.items)
    /\ \A i \in 1..Len(sorted) : sorted[i] = sorts.items[p[i]]
    /\ \A i, j \in 1..Len(sorted) :
           i < j => /\ ~TupleBefore(TupleOf(sorted[j]), TupleOf(sorted[i]))
                    /\ FirstDiff(TupleOf(sorted[i]), TupleOf(sorted[j])) = 0
                           => p[i] < p[j]

\* C11: for every sequence of Whats or ids and every key list, the first
\* returned sequence is a permutation of the input, non-decreasing by the
\* extracted tuples, with equal tuples in their input order.
StableSort ==
    sorts.stage = "done"
    => /\ ~sorts.raised
       /\ Len(sorts.ret) = 2
       /\ \E p \in Perms(Len(sorts.items)) : StablySortedBy(p, sorts.ret[1])

\* C12: for every input of any length n >= 0 and every key list, the sort
\* returns a pair of two sequences of length n, the i-th tuple of the second
\* being the tuple extracted for the i-th item of the first.
SortResultShape ==
    sorts.stage = "done"
    => /\ ~sorts.raised
       /\ Len(sorts.ret) = 2
       /\ Len(sorts.ret[1]) = Len(sorts.items)
       /\ Len(sorts.ret[2]) = Len(sorts.items)
       /\ \A i \in 1..Len(sorts.items) : sorts.ret[2][i] = TupleOf(sorts.ret[1][i])

\* C13: the sort ends for every input whose Whats all have the keys, whatever
\* the types of the extracted values, and what it returns is in the total
\* order that falls back to canonical strings.
SortTotalOrder ==
    sorts.stage = "done"
    => /\ ~sorts.raised
       /\ Len(sorts.ret) = 2
              => \A i, j \in 1..Len(sorts.ret[2]) :
                     i < j => ~TupleBefore(sorts.ret[2][j], sorts.ret[2][i])

\* C14: flatten_what keeps its work on an explicit stack, so the frames of
\* flatten on the call stack are no more for a deeply nested value than for a
\* What of plain values, which takes two.
CallDepthBounded == Len(walk.stack) <= 2
====
